---- MODULE Spec2Model ----
(***************************************************************************)
(* BitBooks (script.js): the LibraryModel book collection, the Book        *)
(* comparators, and the LibraryController / LibraryView glue around them.  *)
(*                                                                         *)
(* JavaScript values are represented as follows.                           *)
(*   - a String is the sequence of its UTF-16 code units (naturals);       *)
(*   - a page count is a tagged value, Num(n) for a Number and Str(s) for  *)
(*     a String, because the code compares page counts with === and <,     *)
(*     which both depend on the type of their operands;                    *)
(*   - a Date is the number of clock ticks since the page was loaded;      *)
(*   - a Book is a record of its five private fields.                      *)
(* added is a history variable, which the program does not have: the       *)
(* Books of the collection in the order in which addBook pushed them.  It  *)
(* is kept by the operations of SpecOrder and stays empty elsewhere.       *)
(***************************************************************************)
EXTENDS Integers, Sequences, FiniteSets, TLC

VARIABLES books, dom, clock, last, added

vars == <<books, dom, clock, last, added>>

(***************************************************************************)
(* Bounds.                                                                 *)
(***************************************************************************)
MaxBooks == 2
MaxClock == 1

(***************************************************************************)
(* Inputs.  The titles are "A" and "B".  The authors are the fullwidth     *)
(* "X" (U+FF38, one code unit) and the mathematical bold "X" (U+1D417,     *)
(* the surrogate pair D835 DC17).  Page counts are 50 and 100.  Catalogue  *)
(* is the set of (title, author, pages) the operations are called with:    *)
(* it has books that share no field, only the title, only the author,     *)
(* only the pages, title and author, title and pages, author and pages.    *)
(***************************************************************************)
TitleA == <<65>>
TitleB == <<66>>
AuthorX == <<65336>>
AuthorY == <<55349, 56343>>

Catalogue ==
    { [title |-> TitleA, author |-> AuthorX, pages |-> 100],
      [title |-> TitleB, author |-> AuthorY, pages |-> 50],
      [title |-> TitleA, author |-> AuthorY, pages |-> 50],
      [title |-> TitleB, author |-> AuthorX, pages |-> 100],
      [title |-> TitleA, author |-> AuthorX, pages |-> 50] }

Num(n) == [t |-> "number", v |-> n]
Str(s) == [t |-> "string", v |-> s]

NULL == [t |-> "null"]

(***************************************************************************)
(* CMPValues                                                               *)
(***************************************************************************)
LESS == -1
EQUAL == 0
GREATER == 1

(***************************************************************************)
(* The < operator of JavaScript on two Strings: lexicographic on the       *)
(* sequences of code units, a proper prefix being smaller.                 *)
(***************************************************************************)
RECURSIVE StrLess(_, _)
StrLess(s1, s2) ==
    IF s2 = <<>> THEN FALSE
    ELSE IF s1 = <<>> THEN TRUE
    ELSE IF Head(s1) # Head(s2) THEN Head(s1) < Head(s2)
    ELSE StrLess(Tail(s1), Tail(s2))

(***************************************************************************)
(* ToNumber on a String of decimal digits (the empty String is 0), and on  *)
(* a tagged value.                                                         *)
(***************************************************************************)
RECURSIVE DigitsToNumber(_, _)
DigitsToNumber(s, acc) ==
    IF s = <<>> THEN acc
    ELSE DigitsToNumber(Tail(s), 10 * acc + (Head(s) - 48))

ToNumber(x) == IF x.t = "number" THEN x.v ELSE DigitsToNumber(x.v, 0)

(***************************************************************************)
(* x < y and x === y on tagged values.                                     *)
(***************************************************************************)
JsLess(x, y) ==
    IF x.t = "string" /\ y.t = "string" THEN StrLess(x.v, y.v)
    ELSE ToNumber(x) < ToNumber(y)

StrictEq(x, y) == x.t = y.t /\ x.v = y.v

(***************************************************************************)
(* Book                                                                    *)
(***************************************************************************)
Book(title, author, pages, hasRead) ==
    [title |-> title, author |-> author, pages |-> pages,
     hasRead |-> hasRead, dateTimeAdded |-> clock]

cmpTitle(b1, b2) ==
    IF StrLess(b1.title, b2.title) THEN LESS
    ELSE IF StrLess(b2.title, b1.title) THEN GREATER
    ELSE EQUAL

(* cmpAuthor with LESS and GREATER exchanged.                              *)
cmpAuthor_swapped(b1, b2) ==
    IF StrLess(b1.author, b2.author) THEN GREATER
    ELSE IF StrLess(b2.author, b1.author) THEN LESS
    ELSE EQUAL

cmpAuthor(b1, b2) ==
    IF StrLess(b1.author, b2.author) THEN LESS
    ELSE IF StrLess(b2.author, b1.author) THEN GREATER
    ELSE EQUAL

cmpPages(b1, b2) ==
    IF JsLess(b1.pages, b2.pages) THEN LESS
    ELSE IF JsLess(b2.pages, b1.pages) THEN GREATER
    ELSE EQUAL

cmpDateTimeAdded(b1, b2) ==
    IF b1.dateTimeAdded < b2.dateTimeAdded THEN LESS
    ELSE IF b1.dateTimeAdded > b2.dateTimeAdded THEN GREATER
    ELSE EQUAL

CmpFns == { "cmpDateTimeAdded", "cmpTitle", "cmpAuthor", "cmpPages" }

CallCmp(cmpFn, b1, b2) ==
    CASE cmpFn = "cmpDateTimeAdded" -> cmpDateTimeAdded(b1, b2)
      [] cmpFn = "cmpTitle" -> cmpTitle(b1, b2)
      [] cmpFn = "cmpAuthor" -> cmpAuthor(b1, b2)
      [] cmpFn = "cmpPages" -> cmpPages(b1, b2)

(***************************************************************************)
(* Array.prototype.sort(comparefn): a stable sort.  Each element is        *)
(* inserted, in array order, behind every element that does not compare    *)
(* greater than it.                                                        *)
(***************************************************************************)
(* An insertion that puts an element in front of its equals: a sort that   *)
(* is not stable.                                                          *)
RECURSIVE SortInsert_unstable(_, _, _)
SortInsert_unstable(sorted, b, cmpFn) ==
    IF sorted = <<>> THEN <<b>>
    ELSE IF CallCmp(cmpFn, Head(sorted), b) >= 0
         THEN <<b>> \o sorted
         ELSE <<Head(sorted)>> \o SortInsert_unstable(Tail(sorted), b, cmpFn)

(* An insertion that drops an element that compares equal to one already   *)
(* placed: a sort that loses books.                                        *)
RECURSIVE SortInsert_dropsEqual(_, _, _)
SortInsert_dropsEqual(sorted, b, cmpFn) ==
    IF sorted = <<>> THEN <<b>>
    ELSE IF CallCmp(cmpFn, Head(sorted), b) > 0
         THEN <<b>> \o sorted
         ELSE IF CallCmp(cmpFn, Head(sorted), b) = 0
         THEN sorted
         ELSE <<Head(sorted)>>
                  \o SortInsert_dropsEqual(Tail(sorted), b, cmpFn)

RECURSIVE SortInsert(_, _, _)
SortInsert(sorted, b, cmpFn) ==
    IF sorted = <<>> THEN <<b>>
    ELSE IF CallCmp(cmpFn, Head(sorted), b) > 0
         THEN <<b>> \o sorted
         ELSE <<Head(sorted)>> \o SortInsert(Tail(sorted), b, cmpFn)

RECURSIVE ArraySortFrom(_, _, _)
ArraySortFrom(sorted, rest, cmpFn) ==
    IF rest = <<>> THEN sorted
    ELSE ArraySortFrom(SortInsert(sorted, Head(rest), cmpFn), Tail(rest), cmpFn)

ArraySort(arr, cmpFn) == ArraySortFrom(<<>>, arr, cmpFn)

(***************************************************************************)
(* Array.prototype.find with the three predicates of addBook: is there an  *)
(* element with this title, this author, this page count (===).  The find  *)
(* for the page count is nested in the predicate of the find for the       *)
(* author, but does not depend on the book that predicate is applied to.   *)
(***************************************************************************)
FindTitle(arr, title) == \E i \in 1..Len(arr) : arr[i].title = title
FindAuthor(arr, author) == \E i \in 1..Len(arr) : arr[i].author = author
FindPages(arr, pages) == \E i \in 1..Len(arr) : StrictEq(arr[i].pages, pages)

(***************************************************************************)
(* LibraryModel.  addBook yields the new value of #books and the value     *)
(* returned; deleteBook and sortBooks yield the new value of #books.       *)
(***************************************************************************)

(* Variants of addBook with a plausible slip.                              *)
(*   addBook_noCheck: STEP 1 is missing.                                   *)
(*   addBook_upsert:  a rejected add overwrites the read status of the     *)
(*                    books with the given triple.                         *)
(*   addBook_unshift: the new Book is put in front (unshift for push).     *)
addBook_noCheck(title, author, pages, hasRead) ==
    [books |-> Append(books, Book(title, author, pages, hasRead)),
     ret |-> Book(title, author, pages, hasRead)]

addBook_upsert(title, author, pages, hasRead) ==
    IF FindTitle(books, title)
       /\ FindAuthor(books, author) /\ FindPages(books, pages)
    THEN [books |-> [i \in 1..Len(books) |->
                        IF /\ books[i].title = title
                           /\ books[i].author = author
                           /\ StrictEq(books[i].pages, pages)
                        THEN [books[i] EXCEPT !.hasRead = hasRead]
                        ELSE books[i]],
          ret |-> NULL]
    ELSE [books |-> Append(books, Book(title, author, pages, hasRead)),
          ret |-> Book(title, author, pages, hasRead)]

addBook_unshift(title, author, pages, hasRead) ==
    IF FindTitle(books, title)
       /\ FindAuthor(books, author) /\ FindPages(books, pages)
    THEN [books |-> books, ret |-> NULL]
    ELSE [books |-> <<Book(title, author, pages, hasRead)>> \o books,
          ret |-> Book(title, author, pages, hasRead)]

LibraryModel_addBook(title, author, pages, hasRead) ==
    IF FindTitle(books, title)
       /\ FindAuthor(books, author) /\ FindPages(books, pages)
    THEN [books |-> books, ret |-> NULL]
    ELSE [books |-> Append(books, Book(title, author, pages, hasRead)),
          ret |-> Book(title, author, pages, hasRead)]

(* deleteBook with the result of filter thrown away.                       *)
deleteBook_noAssign(title, author, pages) == books

LibraryModel_deleteBook(title, author, pages) ==
    SelectSeq(books, LAMBDA book :
        /\ book.title # title
        /\ book.author # author
        /\ ~StrictEq(book.pages, pages))

LibraryModel_sortBooks(cmpFn) == ArraySort(books, cmpFn)

(***************************************************************************)
(* The history of additions after an addBook that returned ret, and after  *)
(* a deleteBook that left the collection arr.                              *)
(***************************************************************************)
AddedAfterAdd(ret) == IF ret = NULL THEN added ELSE Append(added, ret)

AddedAfterDelete(arr) ==
    SelectSeq(added, LAMBDA b : \E i \in 1..Len(arr) : arr[i] = b)

(***************************************************************************)
(* The state after construction: an empty collection, an empty library     *)
(* div.                                                                    *)
(***************************************************************************)
Init ==
    /\ books = <<>>
    /\ dom = <<>>
    /\ clock = 0
    /\ last = [op |-> "constructor"]
    /\ added = <<>>

(***************************************************************************)
(* The operations of the collection, called with arguments of the          *)
(* documented types (String, String, Number, Boolean), and the passing of  *)
(* time.  last records the call, what it returned, the size of the         *)
(* collection before it and, for a sort, whether it changed the order.     *)
(***************************************************************************)
AddBookWith(history) ==
    /\ \E b \in Catalogue, hasRead \in BOOLEAN :
            LET r == LibraryModel_addBook(b.title, b.author, Num(b.pages),
                                          hasRead)
            IN  /\ books' = r.books
                /\ last' = [op |-> "addBook", title |-> b.title,
                            author |-> b.author, pages |-> Num(b.pages),
                            hasRead |-> hasRead, ret |-> r.ret,
                            size |-> Len(books)]
                /\ added' = IF history THEN AddedAfterAdd(r.ret) ELSE added
    /\ Len(books') <= MaxBooks
    /\ UNCHANGED <<dom, clock>>

AddBook == AddBookWith(FALSE)

DeleteBookWith(history) ==
    /\ \E b \in Catalogue :
            /\ books' = LibraryModel_deleteBook(b.title, b.author,
                                                Num(b.pages))
            /\ last' = [op |-> "deleteBook", title |-> b.title,
                        author |-> b.author, pages |-> Num(b.pages),
                        size |-> Len(books)]
            /\ added' = IF history
                        THEN AddedAfterDelete(
                                LibraryModel_deleteBook(b.title, b.author,
                                                        Num(b.pages)))
                        ELSE added
    /\ UNCHANGED <<dom, clock>>

DeleteBook == DeleteBookWith(FALSE)

SortBooks ==
    /\ \E cmpFn \in CmpFns :
            /\ books' = LibraryModel_sortBooks(cmpFn)
            /\ last' = [op |-> "sortBooks", cmpFn |-> cmpFn,
                        size |-> Len(books),
                        moved |-> (LibraryModel_sortBooks(cmpFn) # books)]
    /\ UNCHANGED <<dom, clock, added>>

Tick ==
    /\ clock < MaxClock
    /\ clock' = clock + 1
    /\ last' = [op |-> "tick"]
    /\ UNCHANGED <<books, dom, added>>

Next == AddBook \/ DeleteBook \/ SortBooks \/ Tick

Spec == Init /\ [][Next]_vars

(***************************************************************************)
(* The same operations, with the history of the additions kept.            *)
(***************************************************************************)
TrackedAddBook == AddBookWith(TRUE)

TrackedDeleteBook == DeleteBookWith(TRUE)

NextOrder == TrackedAddBook \/ TrackedDeleteBook \/ SortBooks \/ Tick

SpecOrder == Init /\ [][NextOrder]_vars

(***************************************************************************)
(* The collection called with arguments that the documented types or the   *)
(* constraints of the fields exclude: an empty title, an empty author, a   *)
(* negative page count, a page count that is a String.                     *)
(***************************************************************************)
RawCatalogue ==
    { [title |-> b.title, author |-> b.author, pages |-> Num(b.pages)] :
        b \in Catalogue }
    \cup
    { [title |-> <<>>, author |-> AuthorX, pages |-> Num(50)],
      [title |-> TitleA, author |-> <<>>, pages |-> Num(50)],
      [title |-> TitleB, author |-> AuthorY, pages |-> Num(-1)],
      [title |-> TitleB, author |-> AuthorY, pages |-> Str(<<53, 48>>)] }

RawAddBook ==
    /\ \E b \in RawCatalogue, hasRead \in BOOLEAN :
            LET r == LibraryModel_addBook(b.title, b.author, b.pages, hasRead)
            IN  /\ books' = r.books
                /\ last' = [op |-> "addBook", title |-> b.title,
                            author |-> b.author, pages |-> b.pages,
                            hasRead |-> hasRead, ret |-> r.ret,
                            size |-> Len(books)]
                /\ added' = added
    /\ Len(books') <= MaxBooks
    /\ UNCHANGED <<dom, clock>>

NextRaw == RawAddBook \/ DeleteBook \/ SortBooks \/ Tick

SpecRaw == Init /\ [][NextRaw]_vars

(***************************************************************************)
(* String(x) of a page count, as the template literal of uploadBookToDOM   *)
(* computes it.                                                            *)
(***************************************************************************)
RECURSIVE NatToString(_)
NatToString(n) ==
    IF n < 10 THEN <<48 + n>>
    ELSE NatToString(n \div 10) \o <<48 + (n % 10)>>

JsToString(x) ==
    IF x.t = "string" THEN x.v
    ELSE IF x.v < 0 THEN <<45>> \o NatToString(-x.v)
    ELSE NatToString(x.v)

(* " pages" *)
PagesSuffix == <<32, 112, 97, 103, 101, 115>>

IsDigit(c) == c \in 48..57

(* The index of the last digit of the run of digits that text[k] is in.    *)
RECURSIVE RunEnd(_, _)
RunEnd(text, k) ==
    IF k < Len(text) /\ IsDigit(text[k + 1]) THEN RunEnd(text, k + 1) ELSE k

(***************************************************************************)
(* text.match(/(\d+) pages/)[0]: the leftmost run of digits that " pages"  *)
(* follows, with that suffix; <<>> stands for the null of a failed match.  *)
(***************************************************************************)
RegexMatch(text) ==
    LET starts == { k \in 1..Len(text) :
                      /\ IsDigit(text[k])
                      /\ RunEnd(text, k) + Len(PagesSuffix) <= Len(text)
                      /\ SubSeq(text, RunEnd(text, k) + 1,
                                RunEnd(text, k) + Len(PagesSuffix))
                           = PagesSuffix }
    IN  IF starts = {} THEN <<>>
        ELSE LET k == CHOOSE x \in starts : \A y \in starts : x <= y
             IN  SubSeq(text, k, RunEnd(text, k) + Len(PagesSuffix))

(* parseInt of a String that starts with a digit: the value of its leading *)
(* run of digits.                                                          *)
ParseInt(str) == DigitsToNumber(SubSeq(str, 1, RunEnd(str, 1)), 0)

(***************************************************************************)
(* LibraryView.  The library div is the sequence of its book divs; a book  *)
(* div is the text of its title, author and pages children, whether its    *)
(* status button has the class 'read', and the text of that button.        *)
(***************************************************************************)
BookDiv(book) ==
    [title |-> book.title,
     author |-> book.author,
     pages |-> JsToString(book.pages) \o PagesSuffix,
     read |-> (book.hasRead = TRUE),
     status |-> IF book.hasRead = TRUE THEN "Read" ELSE "Unread"]

LibraryView_uploadBookToDOM(divs, book) == Append(divs, BookDiv(book))

RECURSIVE UploadEach(_, _)
UploadEach(divs, bks) ==
    IF bks = <<>> THEN divs
    ELSE UploadEach(LibraryView_uploadBookToDOM(divs, Head(bks)), Tail(bks))

LibraryView_sortBooks(bks) == UploadEach(<<>>, bks)

LibraryView_removeBookFromDOM(i) ==
    SubSeq(dom, 1, i - 1) \o SubSeq(dom, i + 1, Len(dom))

LibraryView_toggleReadStatus(i) ==
    [dom EXCEPT ![i] =
        [@ EXCEPT !.status = IF dom[i].read THEN "Unread" ELSE "Read",
                  !.read = ~dom[i].read]]

(***************************************************************************)
(* The values of the form fields at a submission.  The value of a field    *)
(* is a String, also that of the page count.  The form of the page is not  *)
(* among the sources; checkValidity is taken to enforce the constraints    *)
(* the specification puts on the fields.                                   *)
(***************************************************************************)
FormInputs ==
    { [title |-> b.title, author |-> b.author,
       pages |-> NatToString(b.pages)] : b \in Catalogue }
    \cup
    { [title |-> <<>>, author |-> AuthorX, pages |-> NatToString(50)] }

checkValidity(f) ==
    /\ f.title # <<>>
    /\ f.author # <<>>
    /\ f.pages # <<>>
    /\ \A k \in 1..Len(f.pages) : IsDigit(f.pages[k])

SortOptions == { "added", "title", "author", "pages" }

(***************************************************************************)
(* LibraryController                                                       *)
(***************************************************************************)
LibraryController_addBook ==
    /\ \E f \in FormInputs, bookStatus \in { "read", "unread" } :
        IF ~checkValidity(f)
        THEN /\ UNCHANGED <<books, dom, added>>
             /\ last' = [op |-> "Controller.addBook", form |-> f,
                         bookStatus |-> bookStatus, ret |-> NULL,
                         submitted |-> FALSE]
        ELSE LET r == LibraryModel_addBook(f.title, f.author, Str(f.pages),
                                           bookStatus = "read")
             IN  /\ books' = r.books
                 /\ dom' = IF r.ret = NULL THEN dom
                           ELSE LibraryView_uploadBookToDOM(dom, r.ret)
                 /\ last' = [op |-> "Controller.addBook", form |-> f,
                             bookStatus |-> bookStatus, ret |-> r.ret,
                             submitted |-> TRUE]
                 /\ added' = added
    /\ Len(books') <= MaxBooks
    /\ Len(dom') <= MaxBooks
    /\ UNCHANGED clock

LibraryController_sortBooks ==
    /\ \E sortOption \in SortOptions :
        LET cmpFn == IF sortOption = "added" THEN "cmpDateTimeAdded"
                     ELSE IF sortOption = "title" THEN "cmpTitle"
                     ELSE IF sortOption = "author" THEN "cmpAuthor"
                     ELSE "cmpPages"
        IN  /\ books' = LibraryModel_sortBooks(cmpFn)
            /\ dom' = LibraryView_sortBooks(LibraryModel_sortBooks(cmpFn))
            /\ last' = [op |-> "Controller.sortBooks",
                        sortOption |-> sortOption]
    /\ UNCHANGED <<clock, added>>

LibraryController_deleteBook ==
    /\ \E i \in 1..Len(dom) :
        LET book == dom[i]
            pageMatch == RegexMatch(book.pages)
        IN  IF pageMatch = <<>>
            THEN /\ UNCHANGED <<books, dom, added>>
                 /\ last' = [op |-> "Controller.deleteBook", div |-> book,
                             threw |-> TRUE]
            ELSE /\ books' = LibraryModel_deleteBook(book.title, book.author,
                                                    Num(ParseInt(pageMatch)))
                 /\ dom' = LibraryView_removeBookFromDOM(i)
                 /\ last' = [op |-> "Controller.deleteBook", div |-> book,
                             threw |-> FALSE]
                 /\ added' = added
    /\ UNCHANGED clock

ToggleReadStatus ==
    /\ \E i \in 1..Len(dom) :
        /\ dom' = LibraryView_toggleReadStatus(i)
        /\ last' = [op |-> "View.toggleReadStatus", div |-> dom[i]]
    /\ UNCHANGED <<books, clock, added>>

NextCtl ==
    \/ LibraryController_addBook
    \/ LibraryController_sortBooks
    \/ LibraryController_deleteBook
    \/ ToggleReadStatus
    \/ Tick

SpecCtl == Init /\ [][NextCtl]_vars

(***************************************************************************)
(* Vocabulary of the properties.                                           *)
(***************************************************************************)
SameTriple(book, title, author, pages) ==
    /\ book.title = title
    /\ book.author = author
    /\ StrictEq(book.pages, pages)

Matching(arr, title, author, pages) ==
    { i \in 1..Len(arr) : SameTriple(arr[i], title, author, pages) }

(***************************************************************************)
(* C1: after addBook(title, author, pages, hasRead) with valid arguments   *)
(* the collection holds exactly one Book with that (title, author, pages), *)
(* also when the three values each occur on other books already.           *)
(***************************************************************************)
C1_AddedExactlyOnce ==
    last.op = "addBook" =>
        Cardinality(Matching(books, last.title, last.author, last.pages)) = 1

(***************************************************************************)
(* C2: no two Books of the collection have the same (title, author,        *)
(* pages).                                                                 *)
(***************************************************************************)
C2_TripleUnique ==
    \A i, j \in 1..Len(books) :
        SameTriple(books[i], books[j].title, books[j].author, books[j].pages)
            => i = j

C2_Witness ==
    /\ last.op = "addBook"
    /\ last.ret = NULL
    /\ Len(books) = 2
    /\ Matching(books, last.title, last.author, last.pages) # {}

(***************************************************************************)
(* C3: addBook with a triple that is in the collection returns null and    *)
(* leaves the collection as it was: same books, same order, same read      *)
(* status.                                                                 *)
(***************************************************************************)
C3_DuplicateAddIsNoOp ==
    [][(/\ last'.op = "addBook"
        /\ Matching(books, last'.title, last'.author, last'.pages) # {})
       => (last'.ret = NULL /\ books' = books)]_vars

C3_Witness ==
    /\ last.op = "addBook"
    /\ last.ret = NULL
    /\ \E i \in Matching(books, last.title, last.author, last.pages) :
            books[i].hasRead # last.hasRead

(***************************************************************************)
(* C4: deleteBook(title, author, pages) removes the Books with that        *)
(* triple and no other: the Books that differ from it in some field stay,  *)
(* in their order.                                                         *)
(***************************************************************************)
C4_DeleteRemovesExactlyMatches ==
    [][last'.op = "deleteBook" =>
        books' = SelectSeq(books, LAMBDA book :
                    ~SameTriple(book, last'.title, last'.author, last'.pages))]_vars

(***************************************************************************)
(* C5: after deleteBook(title, author, pages) no Book of the collection    *)
(* has that triple.                                                        *)
(***************************************************************************)
C5_DeletedTripleAbsent ==
    last.op = "deleteBook" =>
        Matching(books, last.title, last.author, last.pages) = {}

C5_Witness ==
    /\ last.op = "deleteBook"
    /\ Len(books) < last.size
    /\ Matching(books, last.title, last.author, last.pages) = {}

(***************************************************************************)
(* The code points of a String: a high surrogate followed by a low         *)
(* surrogate is one code point of a supplementary plane.                   *)
(***************************************************************************)
RECURSIVE CodePoints(_)
CodePoints(s) ==
    IF s = <<>> THEN <<>>
    ELSE IF /\ Len(s) >= 2
            /\ s[1] \in 55296..56319
            /\ s[2] \in 56320..57343
         THEN <<65536 + 1024 * (s[1] - 55296) + (s[2] - 56320)>>
                  \o CodePoints(SubSeq(s, 3, Len(s)))
         ELSE <<s[1]>> \o CodePoints(Tail(s))

CodePointLess(s1, s2) == StrLess(CodePoints(s1), CodePoints(s2))

(* b1 comes strictly behind b2 in the order of a criterion: Strings in     *)
(* code point order (ByCodePoint) or in code unit order (ByCodeUnit),      *)
(* pages by numeric value, dateTimeAdded by time.                          *)
ByCodePoint(s1, s2) == CodePointLess(s1, s2)
ByCodeUnit(s1, s2) == StrLess(s1, s2)

KeyLess(cmpFn, b1, b2, StringLess(_, _)) ==
    CASE cmpFn = "cmpTitle" -> StringLess(b1.title, b2.title)
      [] cmpFn = "cmpAuthor" -> StringLess(b1.author, b2.author)
      [] cmpFn = "cmpPages" -> ToNumber(b1.pages) < ToNumber(b2.pages)
      [] cmpFn = "cmpDateTimeAdded" -> b1.dateTimeAdded < b2.dateTimeAdded

(***************************************************************************)
(* C6, as claimed: after sortBooks with the comparator of a criterion the  *)
(* collection is non-decreasing in that key, titles and authors in code    *)
(* point order, pages by numeric value, dateTimeAdded by time.             *)
(***************************************************************************)
C6_SortedInCodePointOrder ==
    last.op = "sortBooks" =>
        \A i, j \in 1..Len(books) :
            i < j => ~KeyLess(last.cmpFn, books[j], books[i], ByCodePoint)

(***************************************************************************)
(* C6, amended: after sortBooks with the comparator of a criterion the     *)
(* collection is non-decreasing in that key, titles and authors in the     *)
(* lexicographic order of their UTF-16 code units, pages by numeric value, *)
(* dateTimeAdded by time.                                                  *)
(***************************************************************************)
C6_SortedInCodeUnitOrder ==
    last.op = "sortBooks" =>
        \A i, j \in 1..Len(books) :
            i < j => ~KeyLess(last.cmpFn, books[j], books[i], ByCodeUnit)

C6_Witness ==
    /\ last.op = "sortBooks"
    /\ last.cmpFn = "cmpAuthor"
    /\ last.moved
    /\ Len(books) >= 2

(***************************************************************************)
(* C7: sortBooks is stable: the Books that compare equal under the         *)
(* comparator are in the same relative order after the sort as before.     *)
(***************************************************************************)
EqualKeyed(arr, cmpFn, b) ==
    SelectSeq(arr, LAMBDA x : CallCmp(cmpFn, x, b) = EQUAL)

C7_SortIsStable ==
    [][last'.op = "sortBooks" =>
        \A i \in 1..Len(books) :
            EqualKeyed(books', last'.cmpFn, books[i])
                = EqualKeyed(books, last'.cmpFn, books[i])]_vars

C7_Witness ==
    /\ last.op = "sortBooks"
    /\ last.cmpFn = "cmpPages"
    /\ Len(books) = 2
    /\ cmpPages(books[1], books[2]) = EQUAL
    /\ books[1].dateTimeAdded > books[2].dateTimeAdded

(***************************************************************************)
(* C8: an addBook that returns a Book has appended it: the returned Book   *)
(* is the last element, has the given title, author, pages and hasRead     *)
(* and the time of the call as dateTimeAdded; the Books before it are the  *)
(* former collection.                                                      *)
(***************************************************************************)
C8_AddAppends ==
    [][(last'.op = "addBook" /\ last'.ret # NULL) =>
        /\ last'.ret = [title |-> last'.title, author |-> last'.author,
                        pages |-> last'.pages, hasRead |-> last'.hasRead,
                        dateTimeAdded |-> clock]
        /\ books' = Append(books, last'.ret)]_vars

C8_Witness ==
    /\ last.op = "addBook"
    /\ last.ret # NULL
    /\ Len(books) = 2
    /\ books[2] = last.ret
    /\ last.ret.dateTimeAdded = 1
    /\ books[1].dateTimeAdded = 0

(***************************************************************************)
(* C9: addBook with a field that fails its constraint (here an empty       *)
(* title, an empty author, a negative page count, a page count that is a   *)
(* String) is rejected before any mutation: the collection is unchanged.   *)
(***************************************************************************)
ValidArgs(title, author, pages) ==
    /\ title # <<>>
    /\ author # <<>>
    /\ pages.t = "number"
    /\ pages.v >= 0

C9_InvalidAddRejected ==
    [][(/\ last'.op = "addBook"
        /\ ~ValidArgs(last'.title, last'.author, last'.pages))
       => books' = books]_vars

(***************************************************************************)
(* C10: after LibraryController.sortBooks('pages') the books, added        *)
(* through LibraryController.addBook, are in non-decreasing numeric order  *)
(* of page count.                                                          *)
(***************************************************************************)
C10_ControllerSortsPagesNumerically ==
    (last.op = "Controller.sortBooks" /\ last.sortOption = "pages") =>
        \A i, j \in 1..Len(books) :
            i < j => ToNumber(books[i].pages) <= ToNumber(books[j].pages)

(***************************************************************************)
(* C11: after any sequence of LibraryController.addBook, deleteBook and    *)
(* sortBooks the books shown in the library view (title, author, pages,    *)
(* in order) are the Books of the LibraryModel, in order.                  *)
(***************************************************************************)
C11_ViewShowsModel ==
    /\ Len(dom) = Len(books)
    /\ \A i \in 1..Len(dom) :
        /\ dom[i].title = books[i].title
        /\ dom[i].author = books[i].author
        /\ dom[i].pages = JsToString(books[i].pages) \o PagesSuffix

(***************************************************************************)
(* C12: sortBooks only permutes the collection: the Books, with their      *)
(* title, author, pages, hasRead and dateTimeAdded, are the same before    *)
(* and after, and so is the size.  addBook and deleteBook change no field  *)
(* of a Book that stays in the collection: a Book of the collection after  *)
(* the call whose triple was in the collection before is one of the Books  *)
(* of before, and the Books that stay keep their relative order.           *)
(***************************************************************************)
Occurrences(arr, b) == Cardinality({ i \in 1..Len(arr) : arr[i] = b })

IsPermutation(arr1, arr2) ==
    /\ Len(arr1) = Len(arr2)
    /\ \A i \in 1..Len(arr1) :
        Occurrences(arr1, arr1[i]) = Occurrences(arr2, arr1[i])

Kept(arr1, arr2) ==
    SelectSeq(arr1, LAMBDA b : \E j \in 1..Len(arr2) : arr2[j] = b)

C12_BooksKeepTheirFields ==
    [][/\ last'.op = "sortBooks" => IsPermutation(books, books')
       /\ last'.op \in { "addBook", "deleteBook" } =>
            /\ \A j \in 1..Len(books') :
                 Matching(books, books'[j].title, books'[j].author,
                          books'[j].pages) # {}
                    => \E i \in 1..Len(books) : books[i] = books'[j]
            /\ Kept(books, books') = Kept(books', books)]_vars

C12_Witness ==
    /\ last.op = "sortBooks"
    /\ last.cmpFn = "cmpTitle"
    /\ last.moved
    /\ Len(books) = 2
    /\ books[1].hasRead # books[2].hasRead
    /\ books[1].dateTimeAdded > books[2].dateTimeAdded

(***************************************************************************)
(* C13: a read status set with the status button is still the status      *)
(* shown for that book after a later LibraryController.sortBooks: every    *)
(* book shown after the sort was shown before it with the same status.     *)
(***************************************************************************)
C13_ShownStatusSurvivesSort ==
    [][last'.op = "Controller.sortBooks" =>
        \A j \in 1..Len(dom') : \E i \in 1..Len(dom) :
            /\ dom[i].title = dom'[j].title
            /\ dom[i].author = dom'[j].author
            /\ dom[i].pages = dom'[j].pages
            /\ dom[i].read = dom'[j].read
            /\ dom[i].status = dom'[j].status]_vars

(***************************************************************************)
(* C14: after sortBooks with cmpDateTimeAdded the Books are in the order   *)
(* in which they were added, also when Books were added within one clock   *)
(* tick and an earlier sort had reordered them.                            *)
(***************************************************************************)
C14_SortByDateRestoresInsertionOrder ==
    (last.op = "sortBooks" /\ last.cmpFn = "cmpDateTimeAdded")
        => books = added

====
